---- MODULE Spec2Model ----
(***************************************************************************)
(* starter-pack-be: an Express REST API with user registration, password   *)
(* login, Google OAuth2 login and JWT route protection over a MySQL users  *)
(* table.  The repository holds several builds of the same routes; the     *)
(* variable build selects which router files serve the requests, and       *)
(* cookieParser which of the two app files mounts them.                    *)
(***************************************************************************)
EXTENDS Integers, Sequences, FiniteSets, TLC

VARIABLES
    build,        \* which set of router and guard files is deployed
    cookieParser, \* whether the app mounts cookie-parser before the routers
    uniqueEmail,  \* whether the users table carries UNIQUE(email)
    users,        \* the users table, rows in the order the store scans them
    now,          \* wall clock, milliseconds
    ticks,        \* number of clock advances so far
    pc,           \* per request slot: position of the handler
    req,          \* per request slot: the request being served
    loc,          \* per request slot: the handler's local variables
    out,          \* the request answered by the last step: request, run record, response
    issued,       \* the token the client keeps
    issuedFor,    \* what that token was signed for: user id, claims, lifetime, instant
    acked,        \* <<email, password>> pairs whose registration answered 201
    pg            \* state of the pagination harness (SpecPage)

vars == <<build, cookieParser, uniqueEmail, users, now, ticks, pc, req, loc, out, issued, issuedFor,
         acked, pg>>

---------------------------------------------------------------------------
(* Bounds of the model *)

NProcs == 2
MaxUsers == 2
MaxTicks == 1
GuardUsers == 1

Procs == 1..NProcs

(* Values *)

UNDEF == "undefined"
NULL == "null"
SP == " "

(* legacy: the router and guard of unnamed/part_000; js: routes/auth.js;
   js-google: the router of unnamed/part_002; ts: src/routes/auth.ts.  Every
   build serves routes/users through its guard. *)
Builds == {"legacy", "js", "js-google", "ts"}

(* the apps a build is mounted in: index.js parses JSON bodies only, the app
   of config/db.js:22-99 and the TypeScript app also parse cookies *)
Apps(b) ==
    CASE b = "legacy" -> {FALSE}
      [] b = "ts" -> {TRUE}
      [] OTHER -> BOOLEAN

Emails == {"a@x.com", "b@x.com"}
Passwords == {"p", "q"}
Names == {"Ann"}
(* req.body.role: left out, or whatever string the caller sends *)
RoleInputs == {UNDEF, "root"}
Salts == {"s1"}

JWT_SECRET == "server-secret"
OTHER_SECRET == "attacker-secret"

(* clock advances, in milliseconds *)
Steps == {3600500, 86400000}

---------------------------------------------------------------------------
(* bcrypt *)

NoPassword == <<>>

BcryptHash(password, salt) == <<"$2b$10$", salt, password>>

BcryptThrows(password, hash) == password = UNDEF \/ hash = NoPassword

BcryptCompare(password, hash) == Len(hash) = 3 /\ hash[3] = password

---------------------------------------------------------------------------
(* jsonwebtoken *)

Sec(ms) == ms \div 1000

ExpiresIn(span) ==
    CASE span = "24h" -> 24 * 60 * 60
      [] span = "1h" -> 60 * 60

NoToken == [kind |-> "none"]
Malformed == [kind |-> "malformed"]

Mac(key, payload) == <<key, payload>>

JwtSign(claims, key, span, t) ==
    LET payload == claims @@ [iat |-> Sec(t), exp |-> Sec(t) + ExpiresIn(span)]
    IN [kind |-> "jwt", payload |-> payload, sig |-> Mac(key, payload)]

(* verification that never looks at the signature *)
JwtVerifyOkAnyKey(token, key, t) ==
    /\ token.kind = "jwt"
    /\ Sec(t) < token.payload.exp

JwtVerifyOk(token, key, t) ==
    /\ token.kind = "jwt"
    /\ token.sig = Mac(key, token.payload)
    /\ Sec(t) < token.payload.exp

JwtVerify(token, key, t) ==
    IF JwtVerifyOk(token, key, t) THEN token.payload ELSE [error |-> "JsonWebTokenError"]

---------------------------------------------------------------------------
(* the users table *)

Range(s) == {s[i] : i \in 1..Len(s)}

SelectByEmail(table, email) == {i \in 1..Len(table) : table[i].email = email}

UuidV4(table) == <<"uuid", Len(table) + 1>>

AutoIncrement(table) == <<"auto", Len(table) + 1>>

InsertRejected(table, unique, email) ==
    unique /\ SelectByEmail(table, email) # {}

(* the places a new row can take in the order the store scans the table: the
   statements name no ORDER BY, and where a row lands is the store's choice
   (at the end of a heap, by its key in a table clustered on the key) *)
Slots(table) == 1..(Len(table) + 1)

InsertAt(table, k, row) ==
    SubSeq(table, 1, k - 1) \o <<row>> \o SubSeq(table, k, Len(table))

NoId == <<>>

---------------------------------------------------------------------------
(* requests, handler locals and responses *)

NoUser == [none |-> TRUE]
NoCookie == [name |-> "none"]
NoBody == [none |-> TRUE]

NoReq ==
    [kind |-> "none", email |-> UNDEF, password |-> UNDEF, name |-> UNDEF,
     role |-> UNDEF, code |-> UNDEF, hasAuth |-> FALSE, auth |-> <<>>,
     cookie |-> NoToken, limit |-> <<>>, offset |-> <<>>, badBody |-> FALSE,
     ackedPw |-> {}]

(* what a token was signed for: the user's id, the claims and the lifetime
   handed to jwt.sign, and the instant of the call *)
NoIssue == [id |-> NoId, claims |-> NoBody, span |-> UNDEF, at |-> 0]

(* what a request did: store calls, provider calls, the guard's decisions
   and the req.user it set, and what a token was signed for *)
NoRun ==
    [dbCalls |-> 0, dbFailed |-> FALSE, dbRejected |-> FALSE, dbWrites |-> 0,
     idpCalls |-> 0, idpFailed |-> FALSE, verified |-> NoToken, verifiedAt |-> 0,
     fromCookie |-> FALSE, nextCalled |-> FALSE, user |-> NoUser,
     signedFor |-> NoIssue]

(* what a handler holds across its awaits *)
NoLoc ==
    [user |-> NoUser, hashed |-> NoPassword, payload |-> NoBody, limit |-> 0,
     offset |-> 0, items |-> <<>>, run |-> NoRun]

(* redirect is the Location up to its query; urlToken the token in ?token= *)
NoResp ==
    [status |-> 0, body |-> NoBody, cookie |-> NoCookie, redirect |-> UNDEF,
     urlToken |-> NoToken]

NoOut == [req |-> NoReq, run |-> NoRun, resp |-> NoResp]

(* the token a response carries: in its cookie, in its body or in the URL it
   redirects to *)
TokenOf(r) ==
    IF r.cookie.name = "token" THEN r.cookie.value
    ELSE IF r.status = 200 /\ "token" \in DOMAIN r.body THEN r.body.token
    ELSE r.urlToken

Json(status, body) == [NoResp EXCEPT !.status = status, !.body = body]

Message(text) == [message |-> text]

(* mysql2 execute() rejects an undefined bind parameter before any query *)
BindThrows(params) == \E i \in 1..Len(params) : params[i] = UNDEF

(* the handler suspends on an await; r and l are its request and locals *)
Await(p, at, r, l) ==
    /\ pc' = [pc EXCEPT ![p] = at]
    /\ req' = [req EXCEPT ![p] = r]
    /\ loc' = [loc EXCEPT ![p] = l]
    /\ out' = NoOut

(* the handler sends answer and returns *)
Respond(p, r, run, answer) ==
    /\ out' = [req |-> r, run |-> run, resp |-> answer]
    /\ pc' = [pc EXCEPT ![p] = "idle"]
    /\ req' = [req EXCEPT ![p] = NoReq]
    /\ loc' = [loc EXCEPT ![p] = NoLoc]

DbCall(run, failed) == [run EXCEPT !.dbCalls = @ + 1, !.dbFailed = failed]

(* an INSERT the store refuses for a duplicate key: the call rejects *)
DbReject(run) == [run EXCEPT !.dbCalls = @ + 1, !.dbFailed = TRUE, !.dbRejected = TRUE]

DbWrite(run) == [run EXCEPT !.dbCalls = @ + 1, !.dbWrites = @ + 1]

Signed(run, id, claims, span, t) ==
    [run EXCEPT !.signedFor = [id |-> id, claims |-> claims, span |-> span, at |-> t]]

InternalError == Json(500, Message("Internal server error"))

---------------------------------------------------------------------------
(* POST /users/user.  A body field is drawn when the handler first reads it. *)

DefaultRole(role) == IF role = UNDEF THEN "user" ELSE role

RegisterSelect(p) ==
    /\ pc[p] = "idle"
    /\ \E email \in Emails \cup {UNDEF} :
       LET r == [NoReq EXCEPT !.kind = "register", !.email = email,
                              !.ackedPw = {a[2] : a \in {b \in acked : b[1] = email}}]
       IN IF BindThrows(<<email>>)
          THEN Respond(p, r, NoRun, InternalError)
          ELSE \E ok \in BOOLEAN :
               IF ~ok
               THEN Respond(p, r, DbCall(NoRun, TRUE), InternalError)
               ELSE IF SelectByEmail(users, email) # {}
                    THEN Respond(p, r, DbCall(NoRun, FALSE),
                                 Json(400, Message("Email already exists")))
                    ELSE Await(p, "reg_hash", r, [NoLoc EXCEPT !.run = DbCall(NoRun, FALSE)])
    /\ UNCHANGED <<build, cookieParser, uniqueEmail, users, now, ticks, issued, issuedFor, acked, pg>>

RegisterHash(p) ==
    /\ pc[p] = "reg_hash"
    /\ \E password \in Passwords \cup {UNDEF} :
       LET r == [req[p] EXCEPT !.password = password]
       IN IF password = UNDEF
          THEN Respond(p, r, loc[p].run, InternalError)
          ELSE \E salt \in Salts :
               Await(p, "reg_insert", r,
                     [loc[p] EXCEPT !.hashed = BcryptHash(password, salt)])
    /\ UNCHANGED <<build, cookieParser, uniqueEmail, users, now, ticks, issued, issuedFor, acked, pg>>

RegisterRow(r, hashed, userId, t) ==
    [id |-> userId, name |-> r.name, email |-> r.email, password |-> hashed,
     role |-> r.role, google_id |-> NULL, created_at |-> Sec(t)]

RegisterInsert(p) ==
    /\ pc[p] = "reg_insert"
    /\ \E name \in Names \cup {UNDEF}, role \in RoleInputs :
       LET r == [req[p] EXCEPT !.name = name, !.role = DefaultRole(role)]
       IN IF BindThrows(<<r.name, r.email, r.role>>)
          THEN /\ Respond(p, r, loc[p].run, InternalError)
               /\ UNCHANGED <<users, acked>>
          ELSE \E ok \in BOOLEAN :
               IF ~ok
               THEN /\ Respond(p, r, DbCall(loc[p].run, TRUE), InternalError)
                    /\ UNCHANGED <<users, acked>>
               ELSE IF InsertRejected(users, uniqueEmail, r.email)
               THEN /\ Respond(p, r, DbReject(loc[p].run), InternalError)
                    /\ UNCHANGED <<users, acked>>
               ELSE /\ \E k \in Slots(users) :
                       users' = InsertAt(users, k,
                                         RegisterRow(r, loc[p].hashed, UuidV4(users), now))
                    /\ acked' = acked \cup {<<r.email, r.password>>}
                    /\ Respond(p, r, DbWrite(loc[p].run),
                               Json(201, [userId |-> UuidV4(users)]))
    /\ UNCHANGED <<build, cookieParser, uniqueEmail, now, ticks, issued, issuedFor, pg>>

---------------------------------------------------------------------------
(* POST /auth/login.  The password is read by bcrypt.compare, after the lookup. *)

InvalidCredentials == Json(401, Message("Invalid email or password"))

LoginSpan == IF build = "legacy" THEN "1h" ELSE "24h"

LoginClaims(user) ==
    IF build = "ts"
    THEN [id |-> user.id, name |-> user.name, email |-> user.email, role |-> user.role]
    ELSE [id |-> user.id, name |-> user.name, email |-> user.email]

TokenCookie(token) ==
    [name |-> "token", value |-> token, httpOnly |-> TRUE, secure |-> FALSE,
     sameSite |-> "lax", maxAge |-> 24 * 60 * 60 * 1000]

LoginSuccess(user, token) ==
    IF build = "ts"
    THEN [NoResp EXCEPT !.status = 200,
                        !.cookie = TokenCookie(token),
                        !.body = [id |-> user.id, name |-> user.name,
                                  email |-> user.email, role |-> user.role,
                                  created_at |-> user.created_at]]
    ELSE Json(200, [token |-> token])

(* the answer once the lookup returned rows; first is rows[0] when there is one *)
LoginAnswer(rows, first, password, token) ==
    IF rows = {}
    THEN InvalidCredentials
    ELSE IF BcryptThrows(password, first.password)
         THEN InternalError
         ELSE IF ~BcryptCompare(password, first.password)
              THEN InvalidCredentials
              ELSE LoginSuccess(first, token)

LoginSelect(p) ==
    /\ pc[p] = "idle"
    /\ \E email \in Emails \cup {UNDEF} :
       LET r == [NoReq EXCEPT !.kind = "login", !.email = email,
                              !.ackedPw = {a[2] : a \in {b \in acked : b[1] = email}}]
           (* the request as answered before the password is read *)
           Unread(run, answer) ==
               \E password \in Passwords \cup {UNDEF} :
                   Respond(p, [r EXCEPT !.password = password], run, answer)
       IN IF BindThrows(<<email>>)
          THEN Unread(NoRun, InternalError)
          ELSE \E ok \in BOOLEAN :
               IF ~ok
               THEN Unread(DbCall(NoRun, TRUE), InternalError)
               ELSE IF SelectByEmail(users, email) = {}
                    THEN Unread(DbCall(NoRun, FALSE), InvalidCredentials)
                    ELSE \E i \in SelectByEmail(users, email) :
                         Await(p, "login_compare", r,
                               [NoLoc EXCEPT !.run = DbCall(NoRun, FALSE),
                                             !.user = users[i]])
    /\ UNCHANGED <<build, cookieParser, uniqueEmail, users, now, ticks, issued, issuedFor, acked, pg>>

LoginCompare(p) ==
    /\ pc[p] = "login_compare"
    /\ \E password \in Passwords \cup {UNDEF} :
       LET r == [req[p] EXCEPT !.password = password]
           token == JwtSign(LoginClaims(loc[p].user), JWT_SECRET, LoginSpan, now)
           answer == LoginAnswer({loc[p].user}, loc[p].user, password, token)
       IN Respond(p, r,
                  IF answer.status = 200
                  THEN Signed(loc[p].run, loc[p].user.id, LoginClaims(loc[p].user),
                              LoginSpan, now)
                  ELSE loc[p].run,
                  answer)
    /\ UNCHANGED <<build, cookieParser, uniqueEmail, users, now, ticks, issued, issuedFor,
                   acked, pg>>

---------------------------------------------------------------------------
(* GET /auth/google/callback (the builds that have the route).  A field of
   the verified payload is drawn when the handler first passes it on. *)

Subs == {"g-100"}

HasGoogle == build \in {"js-google", "ts"}

GoogleFailed == Json(500, Message("Google login failed"))

IdpCall(run) == [run EXCEPT !.idpCalls = @ + 1]

(* a provider call that threw *)
IdpFail(run) == [run EXCEPT !.idpCalls = @ + 1, !.idpFailed = TRUE]

(* claims with the name taken from the wrong column *)
CallbackClaimsMisnamed(user) == [id |-> user.id, name |-> user.email, email |-> user.email]

CallbackClaims(user) == [id |-> user.id, name |-> user.name, email |-> user.email]

CallbackSuccess(token) ==
    IF build = "ts"
    THEN [NoResp EXCEPT !.status = 302, !.cookie = TokenCookie(token),
                        !.redirect = "http://localhost:3000/oauth-redirect"]
    ELSE [NoResp EXCEPT !.status = 302, !.redirect = "http://localhost:3000?token=",
                        !.urlToken = token]

(* a callback that starts the exchange whether or not a code came *)
CallbackStartUnchecked(p) ==
    /\ pc[p] = "idle"
    /\ HasGoogle
    /\ \E code \in {UNDEF, "4/0Ab"} :
       Await(p, "cb_exchange", [NoReq EXCEPT !.kind = "callback", !.code = code], NoLoc)
    /\ UNCHANGED <<build, cookieParser, uniqueEmail, users, now, ticks, issued, issuedFor, acked, pg>>

CallbackStart(p) ==
    /\ pc[p] = "idle"
    /\ HasGoogle
    /\ \E code \in {UNDEF, "4/0Ab"} :
       LET r == [NoReq EXCEPT !.kind = "callback", !.code = code]
       IN IF code = UNDEF
          THEN Respond(p, r, NoRun, Json(400, Message("Missing authorization code")))
          ELSE Await(p, "cb_exchange", r, NoLoc)
    /\ UNCHANGED <<build, cookieParser, uniqueEmail, users, now, ticks, issued, issuedFor, acked, pg>>

(* client.getToken(code): the provider exchanges the code or refuses *)
CallbackExchange(p) ==
    /\ pc[p] = "cb_exchange"
    /\ \E ok \in BOOLEAN :
       IF ok
       THEN Await(p, "cb_verify", req[p], [loc[p] EXCEPT !.run = IdpCall(@)])
       ELSE Respond(p, req[p], IdpFail(loc[p].run), GoogleFailed)
    /\ UNCHANGED <<build, cookieParser, uniqueEmail, users, now, ticks, issued, issuedFor, acked, pg>>

(* a callback that goes on with an assertion that failed verification *)
CallbackVerifyLenient(p) ==
    /\ pc[p] = "cb_verify"
    /\ \E ok \in BOOLEAN, email \in Emails, sub \in Subs :
       Await(p, "cb_select", req[p],
             [loc[p] EXCEPT !.run = IF ok THEN IdpCall(@) ELSE IdpFail(@),
                            !.payload = [email |-> email, sub |-> sub]])
    /\ UNCHANGED <<build, cookieParser, uniqueEmail, users, now, ticks, issued, issuedFor, acked, pg>>

(* client.verifyIdToken, getPayload, and the lookup being issued: the
   handler waits for the lookup also when execute() is going to reject it *)
CallbackVerify(p) ==
    /\ pc[p] = "cb_verify"
    /\ \E ok \in BOOLEAN, email \in Emails \cup {UNDEF}, sub \in Subs :
       IF ~ok
       THEN Respond(p, req[p], IdpFail(loc[p].run), GoogleFailed)
       ELSE Await(p, "cb_select", req[p],
                  [loc[p] EXCEPT !.run = IdpCall(@),
                                 !.payload = [email |-> email, sub |-> sub]])
    /\ UNCHANGED <<build, cookieParser, uniqueEmail, users, now, ticks, issued, issuedFor, acked, pg>>

(* the lookup completes: execute() rejected an undefined email, or the store
   failed, or it returned the rows; with no row the INSERT is issued, and the
   handler waits for it also when execute() is going to reject it *)
CallbackSelect(p) ==
    /\ pc[p] = "cb_select"
    /\ LET payload == loc[p].payload
           rows == SelectByEmail(users, payload.email)
       IN IF BindThrows(<<payload.email>>)
          THEN Respond(p, req[p], loc[p].run, GoogleFailed)
          ELSE \E ok \in BOOLEAN :
               IF ~ok
               THEN Respond(p, req[p], DbCall(loc[p].run, TRUE), GoogleFailed)
               ELSE IF rows = {}
                    THEN Await(p, "cb_insert", req[p],
                               [loc[p] EXCEPT !.run = DbCall(@, FALSE)])
                    ELSE \E i \in rows :
                         LET token == JwtSign(CallbackClaims(users[i]), JWT_SECRET, "24h",
                                              now)
                         IN Respond(p, req[p],
                                    Signed(DbCall(loc[p].run, FALSE), users[i].id,
                                           CallbackClaims(users[i]), "24h", now),
                                    CallbackSuccess(token))
    /\ UNCHANGED <<build, cookieParser, uniqueEmail, users, now, ticks, issued, issuedFor,
                   acked, pg>>

GoogleRow(payload, insertId, t) ==
    [id |-> insertId, name |-> payload.name, email |-> payload.email,
     password |-> NoPassword, role |-> "user", google_id |-> payload.sub,
     created_at |-> Sec(t)]

(* the INSERT completes: execute() rejected an undefined name, or the store
   failed or refused the row, or the row is stored *)
CallbackInsert(p) ==
    /\ pc[p] = "cb_insert"
    /\ \E name \in Names \cup {UNDEF} :
       LET payload == loc[p].payload @@ [name |-> name]
           insertId == AutoIncrement(users)
           user == [id |-> insertId, name |-> payload.name, email |-> payload.email]
           token == JwtSign(CallbackClaims(user), JWT_SECRET, "24h", now)
       IN IF BindThrows(<<payload.name, payload.email, payload.sub>>)
          THEN /\ Respond(p, req[p], loc[p].run, GoogleFailed)
               /\ UNCHANGED users
          ELSE \E ok \in BOOLEAN :
               IF ~ok
               THEN /\ Respond(p, req[p], DbCall(loc[p].run, TRUE), GoogleFailed)
                    /\ UNCHANGED users
               ELSE IF InsertRejected(users, uniqueEmail, payload.email)
               THEN /\ Respond(p, req[p], DbReject(loc[p].run), GoogleFailed)
                    /\ UNCHANGED users
               ELSE /\ \E k \in Slots(users) :
                       users' = InsertAt(users, k, GoogleRow(payload, insertId, now))
                    /\ Respond(p, req[p],
                               Signed(DbWrite(loc[p].run), insertId,
                                      CallbackClaims(user), "24h", now),
                               CallbackSuccess(token))
    /\ UNCHANGED <<build, cookieParser, uniqueEmail, now, ticks, issued, issuedFor, acked,
                   pg>>

---------------------------------------------------------------------------
(* verifyToken, the access guard *)

Word(w) == [kind |-> "word", text |-> w]
Space == [kind |-> "space"]
Empty == [kind |-> "empty"]

(* the value of a run of header items without a space *)
Part(items) ==
    IF Len(items) = 0 THEN Empty
    ELSE IF Len(items) = 1 THEN items[1] ELSE Malformed

RECURSIVE SplitOn(_, _)
(* String.prototype.split(" "): acc is the part being read *)
SplitOn(items, acc) ==
    IF Len(items) = 0
    THEN <<Part(acc)>>
    ELSE IF Head(items) = Space
         THEN <<Part(acc)>> \o SplitOn(Tail(items), <<>>)
         ELSE SplitOn(Tail(items), Append(acc, Head(items)))

HeaderToken(r) ==
    IF ~r.hasAuth THEN NoToken
    ELSE LET parts == SplitOn(r.auth, <<>>)
         IN IF Len(parts) >= 2 THEN parts[2] ELSE NoToken

Falsy(v) == v.kind \in {"none", "empty"}

(* the guard of part_000 reads the header only; the later guard reads
   req.cookies?.token, which is there only behind cookie-parser *)
ReadsCookie == build # "legacy" /\ cookieParser

CookieToken(r) == IF ReadsCookie THEN r.cookie ELSE NoToken

LocatedToken(r) ==
    IF ~Falsy(HeaderToken(r)) THEN HeaderToken(r) ELSE CookieToken(r)

NoTokenProvided == Json(401, Message("No token provided, authorization denied"))

InvalidToken == Json(401, Message("Invalid token"))

(* a guard that verifies with ignoreExpiration *)
VerifyTokenIgnoringExpiry(r, t) ==
    LET token == LocatedToken(r)
    IN IF Falsy(token)
       THEN [next |-> FALSE, resp |-> NoTokenProvided, run |-> NoRun]
       ELSE LET ran == [NoRun EXCEPT !.verified = token, !.verifiedAt = t,
                                     !.fromCookie = Falsy(HeaderToken(r))]
            IN IF token.kind = "jwt" /\ token.sig = Mac(JWT_SECRET, token.payload)
               THEN [next |-> TRUE, user |-> token.payload,
                     run |-> [ran EXCEPT !.nextCalled = TRUE, !.user = token.payload]]
               ELSE [next |-> FALSE, resp |-> InvalidToken, run |-> ran]

(* the guard's verdict on request r at time t: the answer it sends, or next()
   with req.user set to the decoded payload *)
VerifyToken(r, t) ==
    LET token == LocatedToken(r)
    IN IF Falsy(token)
       THEN [next |-> FALSE, resp |-> NoTokenProvided, run |-> NoRun]
       ELSE LET ran == [NoRun EXCEPT !.verified = token, !.verifiedAt = t,
                                     !.fromCookie = Falsy(HeaderToken(r))]
                user == JwtVerify(token, JWT_SECRET, t)
            IN IF JwtVerifyOk(token, JWT_SECRET, t)
               THEN [next |-> TRUE, user |-> user,
                     run |-> [ran EXCEPT !.nextCalled = TRUE, !.user = user]]
               ELSE [next |-> FALSE, resp |-> InvalidToken, run |-> ran]

(* the client keeps the token of the answer it just got: from the body, the
   cookie or the URL it is redirected to *)
Keep ==
    /\ TokenOf(out.resp).kind = "jwt"
    /\ issued' = TokenOf(out.resp)
    /\ issuedFor' = out.run.signedFor
    /\ UNCHANGED <<build, cookieParser, uniqueEmail, users, now, ticks, pc, req, loc, out,
                   acked, pg>>

(* tokens a client can present: the one it keeps, and what it can make *)
Tamper(token) == [token EXCEPT !.payload.exp = @ + 24 * 60 * 60]

Forged(t) ==
    JwtSign([id |-> <<"auto", 1>>, name |-> "Eve", email |-> "a@x.com"],
            OTHER_SECRET, "24h", t)

Presentable ==
    {Malformed, Forged(now)} \cup
    (IF issued.kind = "jwt" THEN {issued, Tamper(issued)} ELSE {})

Bearer(token) == <<Word("Bearer"), Space, token>>

(* <<has Authorization, Authorization items, cookie named token>> *)
CredentialForms ==
    {<<FALSE, <<>>, c>> : c \in {NoToken, Empty} \cup Presentable}
    \cup {<<TRUE, a, c>> : a \in {<<Word("Bearer")>>, <<Word("Bearer"), Space>>},
                           c \in {NoToken, issued}}
    \cup {<<TRUE, Bearer(t), c>> : t \in Presentable, c \in {NoToken, Malformed, issued}}
    \cup {<<TRUE, <<Word("Bearer"), Space, Space, issued>>, NoToken>>}

Credentials(kind) ==
    {[NoReq EXCEPT !.kind = kind, !.hasAuth = f[1], !.auth = f[2], !.cookie = f[3]] :
        f \in CredentialForms}

(* the forms with one credential at most: a header or a cookie *)
SingleCredentials(kind) ==
    {r \in Credentials(kind) : ~r.hasAuth \/ r.cookie = NoToken}

---------------------------------------------------------------------------
(* GET /auth/validate (the router of part_000 has no such route) *)

HasValidate == build # "legacy"

Validate(p) ==
    /\ pc[p] = "idle"
    /\ HasValidate
    /\ \E r \in Credentials("validate") :
       LET g == VerifyToken(r, now)
       IN IF ~g.next
          THEN Respond(p, r, g.run, g.resp)
          ELSE Respond(p, r, g.run,
                       Json(200, [id |-> g.user.id, name |-> g.user.name,
                                  email |-> g.user.email]))
    /\ UNCHANGED <<build, cookieParser, uniqueEmail, users, now, ticks, issued, issuedFor, acked, pg>>

---------------------------------------------------------------------------
(* POST /auth/logout *)

Logout(p) ==
    /\ pc[p] = "idle"
    /\ LET r == [NoReq EXCEPT !.kind = "logout"]
       IN IF build = "ts"
          THEN Respond(p, r, NoRun,
                       [NoResp EXCEPT !.status = 200,
                                      !.body = Message("Logout successful"),
                                      !.cookie = [name |-> "token", value |-> Empty,
                                                  httpOnly |-> TRUE, sameSite |-> "lax",
                                                  expires |-> 0]])
          ELSE Respond(p, r, NoRun, Json(200, Message("Logout successful.")))
    /\ UNCHANGED <<build, cookieParser, uniqueEmail, users, now, ticks, issued, issuedFor, acked, pg>>

---------------------------------------------------------------------------
(* GET /users *)

(* a query parameter is the sequence of the values the query string gives
   it: none (req.query.x is undefined), one (a string) or several (an array) *)
Absent == <<>>

RECURSIVE JoinComma(_)
(* String(x) of a string or of an array of strings *)
JoinComma(values) ==
    IF Len(values) = 1 THEN values[1]
    ELSE values[1] \o <<",">> \o JoinComma(Tail(values))

(* StrWhiteSpaceChar: TAB, LF, VT, FF, CR, SP, NBSP, BOM, the line and
   paragraph separators and the space separators; a character the module
   cannot write is named by its code point *)
WhiteSpace ==
    {" ", "\t", "\n", "\r", "\f", "U+000B", "U+00A0", "U+FEFF", "U+2028", "U+2029",
     "U+1680", "U+2000", "U+2001", "U+2002", "U+2003", "U+2004", "U+2005", "U+2006",
     "U+2007", "U+2008", "U+2009", "U+200A", "U+202F", "U+205F", "U+3000"}

RECURSIVE TrimStart(_)
TrimStart(text) ==
    IF Len(text) > 0 /\ Head(text) \in WhiteSpace THEN TrimStart(Tail(text)) ELSE text

Digits == <<"0", "1", "2", "3", "4", "5", "6", "7", "8", "9",
            "a", "b", "c", "d", "e", "f">>

UpperDigits == <<"0", "1", "2", "3", "4", "5", "6", "7", "8", "9",
                 "A", "B", "C", "D", "E", "F">>

(* the value of c as a digit; 36 when it is none *)
DigitValue(c) ==
    IF \E d \in 1..16 : Digits[d] = c \/ UpperDigits[d] = c
    THEN (CHOOSE d \in 1..16 : Digits[d] = c \/ UpperDigits[d] = c) - 1
    ELSE 36

IsDigit(c, radix) == DigitValue(c) < radix

RECURSIVE ReadDigits(_, _, _, _)
(* the longest prefix of digits of the radix, as [nan, val] *)
ReadDigits(text, radix, seen, val) ==
    IF Len(text) = 0 \/ ~IsDigit(Head(text), radix)
    THEN [nan |-> ~seen, val |-> val]
    ELSE ReadDigits(Tail(text), radix, TRUE, radix * val + DigitValue(Head(text)))

HasHexPrefix(text) == Len(text) >= 2 /\ text[1] = "0" /\ text[2] \in {"x", "X"}

(* the digits after the sign: hexadecimal behind 0x or 0X, decimal otherwise *)
ReadNumber(text) ==
    IF HasHexPrefix(text)
    THEN ReadDigits(SubSeq(text, 3, Len(text)), 16, FALSE, 0)
    ELSE ReadDigits(text, 10, FALSE, 0)

(* parseInt of a query parameter: white space, sign, prefix, digits *)
ParseInt(param) ==
    IF Len(param) = 0 THEN [nan |-> TRUE, val |-> 0]
    ELSE LET text == TrimStart(JoinComma(param))
         IN IF Len(text) = 0 THEN [nan |-> TRUE, val |-> 0]
            ELSE IF Head(text) = "-"
                 THEN LET m == ReadNumber(Tail(text))
                      IN [nan |-> m.nan, val |-> 0 - m.val]
                 ELSE IF Head(text) = "+" THEN ReadNumber(Tail(text))
                      ELSE ReadNumber(text)

(* parseInt(x) || d *)
OrDefault(parsed, d) == IF parsed.nan \/ parsed.val = 0 THEN d ELSE parsed.val

QueryInputs ==
    {Absent, <<<<"1">>>>, <<<<"0">>>>, <<<<"x">>>>,
     <<<<"\f", "U+00A0", "0", "x", "2">>>>, <<<<"1">>, <<"2">>>>}

(* <<limit, offset>> of a request: every input as the limit and as the
   offset, and both parameters given *)
QueryPairs ==
    {<<q, Absent>> : q \in QueryInputs} \cup {<<Absent, q>> : q \in QueryInputs}
    \cup {<<<<<<"1">>>>, <<<<"1">>>>>>}

Min(a, b) == IF a < b THEN a ELSE b

(* a page of whole rows, as SELECT * returns them *)
PageOfRows(table, limit, offset) ==
    [i \in 1..(Min(Len(table), offset + limit) - Min(Len(table), offset)) |->
        table[offset + i]]

(* a page that runs one row past the limit *)
PageInclusive(table, limit, offset) ==
    [i \in 1..(Min(Len(table), offset + limit + 1) - Min(Len(table), offset)) |->
        [id |-> table[offset + i].id, name |-> table[offset + i].name,
         email |-> table[offset + i].email]]

Page(table, limit, offset) ==
    [i \in 1..(Min(Len(table), offset + limit) - Min(Len(table), offset)) |->
        [id |-> table[offset + i].id, name |-> table[offset + i].name,
         email |-> table[offset + i].email]]

(* the handler reads limit and offset and issues the page query *)
ListQuery(p, c, run, limit, offset) ==
    Await(p, "list_page", [c EXCEPT !.limit = limit, !.offset = offset],
          [NoLoc EXCEPT !.run = run,
                        !.limit = OrDefault(ParseInt(limit), 10),
                        !.offset = OrDefault(ParseInt(offset), 0)])

ListStart(p) ==
    /\ pc[p] = "idle"
    /\ \E c \in SingleCredentials("list") :
       LET g == VerifyToken(c, now)
       IN IF ~g.next
          THEN Respond(p, c, g.run, g.resp)
          ELSE \E q \in QueryPairs : ListQuery(p, c, g.run, q[1], q[2])
    /\ UNCHANGED <<build, cookieParser, uniqueEmail, users, now, ticks, issued, issuedFor, acked, pg>>

ListPage(p) ==
    /\ pc[p] = "list_page"
    /\ \E ok \in BOOLEAN :
       IF ~ok \/ loc[p].limit < 0 \/ loc[p].offset < 0
       THEN Respond(p, req[p], DbCall(loc[p].run, TRUE), InternalError)
       ELSE Await(p, "list_count", req[p],
                  [loc[p] EXCEPT !.run = DbCall(@, FALSE),
                                 !.items = Page(users, loc[p].limit, loc[p].offset)])
    /\ UNCHANGED <<build, cookieParser, uniqueEmail, users, now, ticks, issued, issuedFor, acked, pg>>

ListCount(p) ==
    /\ pc[p] = "list_count"
    /\ \E ok \in BOOLEAN :
       IF ~ok
       THEN Respond(p, req[p], DbCall(loc[p].run, TRUE), InternalError)
       ELSE Respond(p, req[p], DbCall(loc[p].run, FALSE),
                    Json(200, [offset |-> loc[p].offset, limit |-> loc[p].limit,
                               total |-> Len(users), items |-> loc[p].items]))
    /\ UNCHANGED <<build, cookieParser, uniqueEmail, users, now, ticks, issued, issuedFor, acked, pg>>

---------------------------------------------------------------------------
(* express.json(), mounted before the routers, reads the body of every
   request that has one: a body it cannot parse goes to Express's default
   error handler, which answers 400 with an HTML page; neither the guard nor
   the route's handler is invoked *)

Routes ==
    {"register", "login", "logout", "list"}
    \cup (IF HasValidate THEN {"validate"} ELSE {})
    \cup (IF HasGoogle THEN {"callback"} ELSE {})

Html(status, text) == [NoResp EXCEPT !.status = status, !.body = [html |-> text]]

BodyRejected(p) ==
    /\ pc[p] = "idle"
    /\ \E kind \in Routes :
       Respond(p, [NoReq EXCEPT !.kind = kind, !.badBody = TRUE], NoRun,
               Html(400, "SyntaxError"))
    /\ UNCHANGED <<build, cookieParser, uniqueEmail, users, now, ticks, issued, issuedFor, acked, pg>>

---------------------------------------------------------------------------
(* the clock *)

Advance(steps) ==
    /\ ticks < MaxTicks
    /\ \E d \in steps : now' = now + d
    /\ ticks' = ticks + 1
    /\ out' = NoOut
    /\ UNCHANGED <<build, cookieParser, uniqueEmail, users, pc, req, loc, issued, issuedFor, acked, pg>>

Tick == Advance(Steps)

---------------------------------------------------------------------------

(* the table holds at most cap rows after the step: an INSERT that would
   store one more is not followed, every other outcome of the step is *)
Within(cap) == Len(users') <= cap

Init ==
    /\ build \in Builds
    /\ cookieParser \in Apps(build)
    /\ uniqueEmail \in BOOLEAN
    /\ users = <<>>
    /\ now = 0
    /\ ticks = 0
    /\ pc = [p \in Procs |-> "idle"]
    /\ req = [p \in Procs |-> NoReq]
    /\ loc = [p \in Procs |-> NoLoc]
    /\ out = NoOut
    /\ issued = NoToken
    /\ issuedFor = NoIssue
    /\ acked = {}
    /\ pg = NoBody

Next ==
    \/ \E p \in Procs : RegisterSelect(p)
    \/ \E p \in Procs : RegisterHash(p)
    \/ \E p \in Procs : RegisterInsert(p) /\ Within(MaxUsers)
    \/ \E p \in Procs : LoginSelect(p)
    \/ \E p \in Procs : LoginCompare(p)
    \/ \E p \in Procs : CallbackStart(p)
    \/ \E p \in Procs : CallbackExchange(p)
    \/ \E p \in Procs : CallbackVerify(p)
    \/ \E p \in Procs : CallbackSelect(p)
    \/ \E p \in Procs : CallbackInsert(p) /\ Within(MaxUsers)
    \/ \E p \in Procs : BodyRejected(p)

(* no account route reads a cookie: one app for each build *)
InitAccount == Init /\ cookieParser = (build = "ts")

(* concurrent account requests: registration, login and the OAuth callback *)
Spec == InitAccount /\ [][Next]_vars

NextGuard ==
    \/ RegisterSelect(1)
    \/ RegisterHash(1)
    \/ (RegisterInsert(1) /\ Within(GuardUsers))
    \/ LoginSelect(1)
    \/ LoginCompare(1)
    \/ CallbackStart(1)
    \/ CallbackExchange(1)
    \/ CallbackVerify(1)
    \/ CallbackSelect(1)
    \/ (CallbackInsert(1) /\ Within(GuardUsers))
    \/ Validate(1)
    \/ Logout(1)
    \/ ListStart(1)
    \/ ListPage(1)
    \/ ListCount(1)
    \/ BodyRejected(1)
    \/ Keep
    \/ Tick

(* one client's requests in sequence against the guarded routes, with the clock *)
InitGuard == Init /\ uniqueEmail = TRUE

SpecGuard == InitGuard /\ [][NextGuard]_vars

NextSeq ==
    \/ RegisterSelect(1)
    \/ RegisterHash(1)
    \/ (RegisterInsert(1) /\ Within(MaxUsers))
    \/ LoginSelect(1)
    \/ LoginCompare(1)
    \/ CallbackStart(1)
    \/ CallbackExchange(1)
    \/ CallbackVerify(1)
    \/ CallbackSelect(1)
    \/ (CallbackInsert(1) /\ Within(MaxUsers))
    \/ Logout(1)
    \/ BodyRejected(1)

(* one client's account requests in sequence: no two handlers interleave *)
SpecSeq == Init /\ [][NextSeq]_vars

---------------------------------------------------------------------------
(* Tokens at the edge of their lifetime *)

(* the clock at the start, in milliseconds: half a second into a second *)
IssueTimes == {500}

(* clock advances that end in the last second before the exp of a 24 h
   token signed at the start, in the second of its exp, and later *)
ExpirySteps == {86399499, 86399500, 86400500}

ExpiryTick == Advance(ExpirySteps)

InitToken ==
    /\ build \in Builds
    /\ cookieParser \in Apps(build)
    /\ uniqueEmail = TRUE
    /\ users = <<>>
    /\ now \in IssueTimes
    /\ ticks = 0
    /\ pc = [p \in Procs |-> "idle"]
    /\ req = [p \in Procs |-> NoReq]
    /\ loc = [p \in Procs |-> NoLoc]
    /\ out = NoOut
    /\ issued = NoToken
    /\ issuedFor = NoIssue
    /\ acked = {}
    /\ pg = NoBody

NextToken ==
    \/ RegisterSelect(1)
    \/ RegisterHash(1)
    \/ (RegisterInsert(1) /\ Within(GuardUsers))
    \/ LoginSelect(1)
    \/ LoginCompare(1)
    \/ Keep
    \/ Validate(1)
    \/ ListStart(1)
    \/ ListPage(1)
    \/ ListCount(1)
    \/ ExpiryTick

(* one client registers, logs in, keeps the token and presents it to the
   guarded routes, the clock moving to the edge of the token's lifetime *)
SpecToken == InitToken /\ [][NextToken]_vars

---------------------------------------------------------------------------
(* GET /users page after page *)

MaxRoster == 4
MaxLimit == 3

(* the stored row a registration of the i-th user leaves *)
RosterRow(i, email) ==
    [id |-> <<"uuid", i>>, name |-> "Ann", email |-> email,
     password |-> BcryptHash("p", "s1"), role |-> "user", google_id |-> NULL,
     created_at |-> 0]

RECURSIVE Rosters(_)
(* every table of n rows, in every order the store can hold them *)
Rosters(n) ==
    IF n = 0 THEN {<<>>}
    ELSE {InsertAt(t, k, RosterRow(n, e)) : t \in Rosters(n - 1), k \in 1..n, e \in Emails}

RECURSIVE ToText(_)
(* the decimal numeral of n *)
ToText(n) ==
    IF n < 10 THEN <<Digits[n + 1]>>
    ELSE ToText(n \div 10) \o <<Digits[(n % 10) + 1]>>

(* the client asks for the next page, with the token it holds in the header *)
PageStart ==
    /\ pg.phase = "paging"
    /\ pc[1] = "idle"
    /\ LET c == [NoReq EXCEPT !.kind = "list", !.hasAuth = TRUE, !.auth = Bearer(issued)]
           g == VerifyToken(c, now)
       IN IF ~g.next
          THEN Respond(1, c, g.run, g.resp)
          ELSE ListQuery(1, c, g.run, <<ToText(pg.limit)>>, <<ToText(pg.offset)>>)
    /\ pg' = [pg EXCEPT !.phase = "sent"]
    /\ UNCHANGED <<build, cookieParser, uniqueEmail, users, now, ticks, issued,
                   issuedFor, acked>>

(* the client reads the answer to its request and moves on by limit *)
PageCollect ==
    /\ pg.phase = "sent"
    /\ pc[1] = "idle"
    /\ out.req.kind = "list"
    /\ pg' = IF out.resp.status = 200
             THEN [pg EXCEPT !.pages = Append(@, out.resp.body.items),
                             !.totals = Append(@, out.resp.body.total),
                             !.offset = @ + pg.limit,
                             !.phase = IF pg.offset + pg.limit >= out.resp.body.total
                                       THEN "done" ELSE "paging"]
             ELSE [pg EXCEPT !.phase = "failed"]
    /\ UNCHANGED <<build, cookieParser, uniqueEmail, users, now, ticks, pc, req, loc,
                   out, issued, issuedFor, acked>>

InitPage ==
    /\ build = "ts"
    /\ cookieParser = TRUE
    /\ uniqueEmail = FALSE
    /\ users \in UNION {Rosters(n) : n \in 1..MaxRoster}
    /\ now = 0
    /\ ticks = 0
    /\ pc = [p \in Procs |-> "idle"]
    /\ req = [p \in Procs |-> NoReq]
    /\ loc = [p \in Procs |-> NoLoc]
    /\ out = NoOut
    /\ issued = JwtSign(LoginClaims(users[1]), JWT_SECRET, LoginSpan, 0)
    /\ issuedFor = [id |-> users[1].id, claims |-> LoginClaims(users[1]),
                    span |-> LoginSpan, at |-> 0]
    /\ acked = {}
    /\ pg \in {[phase |-> "paging", limit |-> l, offset |-> 0, pages |-> <<>>,
                 totals |-> <<>>, table |-> users] : l \in 1..MaxLimit}

NextPage ==
    \/ PageStart
    \/ ListPage(1)
    \/ ListCount(1)
    \/ PageCollect
    \/ RegisterSelect(2)
    \/ RegisterHash(2)
    \/ (RegisterInsert(2) /\ Within(MaxRoster + 1))

(* one client reads GET /users page after page with a token issued to a
   stored user, while a second client registers *)
SpecPage == InitPage /\ [][NextPage]_vars

---------------------------------------------------------------------------
(* Properties of the account routes *)

(* the store answered every query of the request just answered *)
StoreAnswered == out.run.dbCalls > 0 /\ ~out.run.dbFailed

LoginAnswered == out.req.kind = "login" /\ StoreAnswered

(* rows of table with this email whose hash was made from this password *)
Matching(table, email, password) ==
    {i \in SelectByEmail(table, email) :
        \E salt \in Salts : table[i].password = BcryptHash(password, salt)}

(* the email of the identity a login response returns *)
IdentityEmail(r) ==
    IF "email" \in DOMAIN r.body THEN r.body.email ELSE TokenOf(r).payload.email

Without(table, email) == SelectSeq(table, LAMBDA u : u.email # email)

(* every answer login can give to (email, password) against table *)
LoginOn(table, email, password) ==
    IF SelectByEmail(table, email) = {}
    THEN {LoginAnswer({}, NoUser, password, NoToken)}
    ELSE {LoginAnswer({table[i]}, table[i], password, NoToken) :
            i \in SelectByEmail(table, email)}

(* C1: a login whose (email, password) matches a stored user answers 200 with
   that user's email in the identity and in the token; every other login the
   store answers is a 401.  Stated for requests that carry both fields, against
   a store in which the email names at most one user. *)
C1_LoginContract ==
    (/\ LoginAnswered
     /\ out.req.password # UNDEF
     /\ Cardinality(SelectByEmail(users, out.req.email)) <= 1)
    => IF Matching(users, out.req.email, out.req.password) # {}
       THEN /\ out.resp.status = 200
            /\ IdentityEmail(out.resp) = out.req.email
            /\ TokenOf(out.resp).payload.email = out.req.email
       ELSE out.resp.status = 401

(* C2: a failed login gets the same status and body whether or not a user
   with the requested email is stored, whatever that user's record holds.
   Stated for requests that carry a password. *)
C2_NoEnumeration ==
    (LoginAnswered /\ out.req.password # UNDEF /\ out.resp.status # 200)
    => \A a \in LoginOn(Without(users, out.req.email), out.req.email, out.req.password) :
          a.status = out.resp.status /\ a.body = out.resp.body

(* C3: once a registration of (email, password) has answered 201, a later
   login with that pair answers 200, and a later registration of that email
   answers 400 and inserts nothing. *)
C3_RegisterThenLogin ==
    /\ (LoginAnswered /\ out.req.password \in out.req.ackedPw)
       => out.resp.status = 200
    /\ (out.req.kind = "register" /\ StoreAnswered /\ out.req.ackedPw # {})
       => (out.resp.status = 400 /\ out.run.dbWrites = 0)

(* C4: no two stored users have the same email. *)
C4_UniqueEmail ==
    \A i, j \in 1..Len(users) : users[i].email = users[j].email => i = j

(* C10: every token issued expires 24 hours after its issue, and a cookie that
   carries one lives 24 hours. *)
C10_TokenLifetime ==
    /\ TokenOf(out.resp).kind = "jwt"
       => TokenOf(out.resp).payload.exp = TokenOf(out.resp).payload.iat + 86400
    /\ (out.resp.cookie.name = "token" /\ out.resp.cookie.value.kind = "jwt")
       => out.resp.cookie.maxAge = 86400000

---------------------------------------------------------------------------
(* Properties of the access guard *)

Guarded == out.req.kind \in {"validate", "list"}

(* express.json() passed the request on to its route *)
Routed(r) == ~r.badBody

IsToken(v) == v.kind \in {"jwt", "malformed"}

(* no token in the Authorization header and no cookie named token *)
NoTokenCarried(r) ==
    /\ r.hasAuth => \A i \in 1..Len(r.auth) : ~IsToken(r.auth[i])
    /\ r.cookie.kind = "none"

(* C5: a request to a guarded route that carries no token in the
   Authorization header and no cookie named token is answered 401, is never
   handed to the handler and never reaches the store. *)
C5_NoTokenRejected ==
    (Guarded /\ NoTokenCarried(out.req))
    => /\ out.resp.status = 401
       /\ ~out.run.nextCalled
       /\ out.run.dbCalls = 0

(* malformed, not signed by the server over this payload, or expired at ms *)
BadToken(token, ms) ==
    IF token.kind # "jwt" THEN TRUE
    ELSE \/ token.sig # <<JWT_SECRET, token.payload>>
         \/ token.payload.exp <= ms \div 1000

(* C6: a guarded request whose located token is malformed, expired or not
   signed with the server secret is answered 401 without the handler running;
   next() is called only after a token was verified successfully. *)
C6_InvalidTokenRejected ==
    Guarded =>
        /\ (out.run.verified.kind # "none" /\ BadToken(out.run.verified, out.run.verifiedAt))
           => (out.resp.status = 401 /\ ~out.run.nextCalled)
        /\ out.run.nextCalled
           => (out.run.verified.kind = "jwt"
               /\ ~BadToken(out.run.verified, out.run.verifiedAt))

C6_Witness ==
    /\ out.req.kind = "validate"
    /\ out.run.verified = issued
    /\ issued.kind = "jwt"
    /\ issued.payload.exp <= now \div 1000
    /\ out.resp = InvalidToken

(* C7: the token verified is the Authorization header's whenever the header
   is present; the cookie named token is used exactly when the request has no
   Authorization header. *)
C7_HeaderFirst ==
    (Guarded /\ out.resp.status # 0) =>
        /\ (out.req.hasAuth /\ out.run.verified.kind # "none") => ~out.run.fromCookie
        /\ IsToken(out.req.cookie) => (out.run.fromCookie <=> ~out.req.hasAuth)

(* C8: GET /auth/validate with the unexpired token that login or the callback
   issued for a user answers 200 with the id, name and email of that user's
   stored record. *)
C8_IdentityRoundTrip ==
    (/\ out.req.kind = "validate"
     /\ issued.kind = "jwt"
     /\ out.run.verified = issued
     /\ now \div 1000 < issued.payload.exp)
    => /\ out.resp.status = 200
       /\ \E i \in 1..Len(users) :
             /\ users[i].id = issuedFor.id
             /\ out.resp.body = [id |-> users[i].id, name |-> users[i].name,
                                 email |-> users[i].email]

C8_Witness ==
    /\ out.req.kind = "validate"
    /\ out.resp.status = 200
    /\ out.run.verified = issued
    /\ out.run.fromCookie
    /\ now > 0
    /\ \E i \in 1..Len(users) : users[i].id = issuedFor.id /\ users[i].google_id # NULL

(* the guard located a token the server signed, and its exp is still ahead *)
ValidAt(run) ==
    /\ run.verified.kind = "jwt"
    /\ run.verified.sig = <<JWT_SECRET, run.verified.payload>>
    /\ run.verifiedAt \div 1000 < run.verified.payload.exp

(* C19: a server-signed token is accepted by the guard at every time before
   its expiry, whatever ran in between, in particular in the request that
   follows a logout; every logout is answered 200 and changes no server
   state. *)
C19_NoRevocation ==
    [][/\ (out'.req.kind \in {"validate", "list"} /\ ValidAt(out'.run))
          => (out'.run.nextCalled /\ out'.resp.status # 401)
       /\ out'.req.kind = "logout"
          => /\ out'.resp.status = 200
             /\ out'.run.dbCalls = 0
             /\ users' = users
       /\ (/\ out.req.kind = "logout"
           /\ out'.req.kind = "validate"
           /\ issued.kind = "jwt"
           /\ out'.run.verified = issued
           /\ now' \div 1000 < issued.payload.exp)
          => out'.resp.status = 200]_vars

---------------------------------------------------------------------------
(* Properties of the token round trip: sign in login, verify in the guard *)

TtlSeconds(span) == IF span = "24h" THEN 86400 ELSE 3600

(* the guard ran on the token the client keeps from a login *)
Presented ==
    /\ Guarded
    /\ issued.kind = "jwt"
    /\ out.run.verified = issued

(* the guard handed the request on with req.user holding every input claim *)
Returned(claims) ==
    /\ out.run.nextCalled
    /\ \A f \in DOMAIN claims : f \in DOMAIN out.run.user /\ out.run.user[f] = claims[f]

(* the guard answered 401 and handed nothing on *)
Refused ==
    /\ ~out.run.nextCalled
    /\ out.run.user = NoUser
    /\ out.resp = InvalidToken

(* C9, as stated: verify(issue(claims, ttl)) returns the input claims at every
   time before issue time + ttl, and fails at every time after it. *)
C9_RoundTrip ==
    Presented =>
        /\ out.run.verifiedAt < issuedFor.at + TtlSeconds(issuedFor.span) * 1000
           => Returned(issuedFor.claims)
        /\ out.run.verifiedAt > issuedFor.at + TtlSeconds(issuedFor.span) * 1000
           => Refused

(* C9, amended: with iat the issue time in whole seconds and exp = iat + ttl,
   verify returns the input claims, extended with iat and exp, at every time
   whose whole second is before exp, and fails at every time from exp on. *)
C9_RoundTripSeconds ==
    Presented =>
        LET iat == issuedFor.at \div 1000
            exp == iat + TtlSeconds(issuedFor.span)
        IN IF out.run.verifiedAt \div 1000 < exp
           THEN /\ Returned(issuedFor.claims)
                /\ DOMAIN out.run.user = DOMAIN issuedFor.claims \cup {"iat", "exp"}
                /\ out.run.user.iat = iat
                /\ out.run.user.exp = exp
           ELSE Refused

C9_Witness ==
    /\ Presented
    /\ out.req.kind = "validate"
    /\ issuedFor.at = 500
    /\ out.run.verifiedAt = 86399999
    /\ out.resp.status = 200
    /\ "role" \in DOMAIN issuedFor.claims
    /\ out.run.user.role = issuedFor.claims.role

---------------------------------------------------------------------------
(* Properties of the OAuth callback *)

CallbackAnswered == out.req.kind = "callback" /\ out.resp.status # 0

(* C11: a callback without a code is answered 400, by the handler with the
   missing-code message; it calls neither the identity provider nor the
   store, writes nothing, and its response carries no cookie and no token. *)
C11_MissingCode ==
    (CallbackAnswered /\ out.req.code = UNDEF)
    => /\ out.resp.status = 400
       /\ Routed(out.req) => out.resp.body = [message |-> "Missing authorization code"]
       /\ out.run.idpCalls = 0
       /\ out.run.dbCalls = 0
       /\ out.run.dbWrites = 0
       /\ out.resp.cookie = NoCookie
       /\ out.resp.redirect = UNDEF
       /\ TokenOf(out.resp) = NoToken

C11_Witness ==
    /\ out.req.kind = "callback"
    /\ out.req.code = UNDEF
    /\ out.resp.status = 400
    /\ Len(users) = 1
    /\ \E p \in Procs : pc[p] = "cb_insert"

(* C13: the callback reaches the store and issues a token or cookie only
   after the code exchange and the verification of the assertion both
   succeeded; when either fails it answers 500 with no store access, no store
   write and no token or cookie. *)
C13_VerifiedBeforeStore ==
    /\ \A p \in Procs :
          pc[p] \in {"cb_select", "cb_insert"}
          => (loc[p].run.idpCalls = 2 /\ ~loc[p].run.idpFailed)
    /\ CallbackAnswered =>
          /\ (out.run.dbCalls > 0 \/ out.resp.cookie # NoCookie \/ out.resp.status = 302)
             => (out.run.idpCalls = 2 /\ ~out.run.idpFailed)
          /\ out.run.idpFailed
             => /\ out.resp.status = 500
                /\ out.resp.body = [message |-> "Google login failed"]
                /\ out.run.dbCalls = 0
                /\ out.run.dbWrites = 0
                /\ out.resp.cookie = NoCookie
                /\ TokenOf(out.resp) = NoToken

C13_Witness ==
    /\ CallbackAnswered
    /\ out.run.idpFailed
    /\ out.run.idpCalls = 2
    /\ Len(users) = 1
    /\ \E p \in Procs : pc[p] = "cb_select"

(* the step in which slot p's callback answers with the redirect *)
CallbackSucceeds(p) ==
    /\ pc[p] \in {"cb_select", "cb_insert"}
    /\ pc'[p] = "idle"
    /\ out'.resp.status = 302

(* table without its k-th row *)
Remove(table, k) == SubSeq(table, 1, k - 1) \o SubSeq(table, k + 1, Len(table))

FindOrCreate(p) ==
    LET e == loc[p].payload.email
        before == {i \in 1..Len(users) : users[i].email = e}
        after == {i \in 1..Len(users') : users'[i].email = e}
    IN /\ Cardinality(after) = 1
       /\ IF before # {}
          THEN users' = users
          ELSE \E k \in 1..Len(users') :
               /\ Remove(users', k) = users
               /\ users'[k].email = e
               /\ users'[k].google_id = loc[p].payload.sub
               /\ users'[k].password = NoPassword

(* C12: after a successful callback for an assertion with email e exactly one
   user with email e is stored; if one was stored before, the store is
   unchanged; if none was, exactly one record is added, holding the provider
   subject id and no password. *)
C12_FindOrCreate == [][\A p \in Procs : CallbackSucceeds(p) => FindOrCreate(p)]_vars

---------------------------------------------------------------------------
(* Properties of the stored records *)

Roles == {"user", "admin"}

(* C14: every stored user's role is "user" or "admin": no sequence of
   registrations and OAuth callbacks stores another value. *)
C14_RoleEnumerated == \A i \in 1..Len(users) : users[i].role \in Roles

(* the answer of the step is a registration's 201 *)
Registers == out'.req.kind = "register" /\ out'.resp.status = 201

(* the answer of the step is a callback's redirect *)
Redirects == out'.req.kind = "callback" /\ out'.resp.status = 302

(* C20: user records are append-only.  Every step leaves every stored record
   as it is and removes none; a record is added only by a registration that
   answers 201 or by a successful callback for an email not stored before;
   login, logout, validate, GET /users and every request answered 400, 401
   or 500 leave the store unchanged. *)
C20_AppendOnly ==
    [][/\ \/ users' = users
          \/ \E k \in 1..Len(users') :
                /\ Remove(users', k) = users
                /\ \/ Registers
                   \/ Redirects /\ SelectByEmail(users, users'[k].email) = {}
       /\ (\/ out'.resp.status \in {400, 401, 500}
           \/ out'.req.kind \in {"login", "logout", "validate", "list"})
          => users' = users]_vars

---------------------------------------------------------------------------
(* Properties of GET /users *)

DecimalDigits == {"0", "1", "2", "3", "4", "5", "6", "7", "8", "9"}

(* the parameter is given once and is a decimal numeral *)
Numeric(param) ==
    /\ Len(param) = 1
    /\ Len(param[1]) > 0
    /\ \A i \in 1..Len(param[1]) : param[1][i] \in DecimalDigits

Numeral(c) ==
    CASE c = "0" -> 0 [] c = "1" -> 1 [] c = "2" -> 2 [] c = "3" -> 3 [] c = "4" -> 4
      [] c = "5" -> 5 [] c = "6" -> 6 [] c = "7" -> 7 [] c = "8" -> 8 [] c = "9" -> 9

RECURSIVE Decimal(_)
Decimal(text) ==
    IF Len(text) = 0 THEN 0
    ELSE 10 * Decimal(SubSeq(text, 1, Len(text) - 1)) + Numeral(text[Len(text)])

Coerced(param, default) == IF Numeric(param) THEN Decimal(param[1]) ELSE default

ListAnswered == out.req.kind = "list" /\ out.resp.status = 200

(* C15: the limit and offset echoed by GET /users, and used for the page, are
   the integer value of the query parameter when it is numeric (0 included)
   and the defaults 10 and 0 exactly when it is missing or not numeric. *)
C15_Coercion ==
    ListAnswered =>
        /\ out.resp.body.limit = Coerced(out.req.limit, 10)
        /\ out.resp.body.offset = Coerced(out.req.offset, 0)
        /\ Len(out.resp.body.items) <= Coerced(out.req.limit, 10)

(* the id, name and email of a stored row *)
Listed(u) == [id |-> u.id, name |-> u.name, email |-> u.email]

RECURSIVE Flatten(_)
Flatten(pages) == IF Len(pages) = 0 THEN <<>> ELSE Head(pages) \o Flatten(Tail(pages))

PageIds(page) == {page[i].id : i \in 1..Len(page)}

(* C16: over an unchanged store the pages for offsets 0, L, 2L, ... are
   pairwise disjoint, follow one order, contain every stored user exactly
   once, hold at most L items each, and every total is the number of stored
   users. *)
C16_Pagination ==
    (pg.phase = "done" /\ users = pg.table) =>
        /\ Flatten(pg.pages) = [i \in 1..Len(users) |-> Listed(users[i])]
        /\ \A j, k \in 1..Len(pg.pages) :
              j # k => PageIds(pg.pages[j]) \cap PageIds(pg.pages[k]) = {}
        /\ \A k \in 1..Len(pg.pages) :
              Len(pg.pages[k]) <= pg.limit /\ pg.totals[k] = Len(users)

C16_Witness ==
    /\ pg.phase = "done"
    /\ users = pg.table
    /\ pg.limit = 2
    /\ Len(users) = 3
    /\ users[1].id = <<"uuid", 3>>
    /\ Len(pg.pages) = 2
    /\ Len(pg.pages[2]) = 1

---------------------------------------------------------------------------
(* Properties of what leaves the server *)

HasPassword(record) == "password" \in DOMAIN record

(* C17: no response body, no item of a users page, no cookie and no claim set
   of a token carries a user's password field. *)
C17_NoPasswordOut ==
    /\ ~HasPassword(out.resp.body)
    /\ ~HasPassword(out.resp.cookie)
    /\ "items" \in DOMAIN out.resp.body
       => \A i \in 1..Len(out.resp.body.items) : ~HasPassword(out.resp.body.items[i])
    /\ TokenOf(out.resp).kind = "jwt" => ~HasPassword(TokenOf(out.resp).payload)
    /\ issued.kind = "jwt" => ~HasPassword(issued.payload)

C17_Witness ==
    /\ ListAnswered
    /\ Len(out.resp.body.items) = 1
    /\ users[1].password # NoPassword
    /\ out.resp.body.items[1].email = users[1].email

---------------------------------------------------------------------------
(* Properties of error handling *)

(* C18: whichever call fails, and whatever the body or query of the request
   holds, a request that fails is answered with a status code and a JSON body
   {message}. *)
C18_FailuresAnswered ==
    out.resp.status >= 400 => DOMAIN out.resp.body = {"message"}

(* C21: whenever the store answers the lookup, a login is answered 200 or
   401, also when the stored record has no password hash and when the
   request has no password field; 500 is left to failing store calls. *)
C21_LoginStatus == LoginAnswered => out.resp.status \in {200, 401}

---------------------------------------------------------------------------
(* Properties of registration against a store with UNIQUE(email) *)

(* C22: with the store enforcing unique emails, two concurrent registrations
   of one unseen email leave exactly one record; one is answered 201 and the
   other, whose INSERT the store refuses, is answered 400 as a duplicate
   email. *)
C22_DuplicateRegistration ==
    uniqueEmail =>
        /\ \A i, j \in 1..Len(users) : users[i].email = users[j].email => i = j
        /\ (out.req.kind = "register" /\ out.run.dbRejected)
           => /\ out.resp.status = 400
              /\ out.resp.body = [message |-> "Email already exists"]
              /\ out.req.email \in {users[i].email : i \in 1..Len(users)}

====
